---- MODULE Spec2Model ----
(***************************************************************************)
(* Rate limiting strategies (limits/aio/strategies.py) over the MongoDB    *)
(* storage (limits/storage/mongodb.py).                                    *)
(*                                                                         *)
(* Time is counted in ticks; TicksPerSec ticks make one second.  Stored    *)
(* datetimes (expireAt) and float timestamps (time.time()) keep the tick;  *)
(* calendar.timegm(...timetuple()) and int(...) drop the sub-second part.  *)
(* A collection is a function from the _id values present to documents.    *)
(***************************************************************************)
EXTENDS Integers, Sequences, FiniteSets, Bags, TLC

\* ---------------------------------------------------------------- bounds
TicksPerSec == 2
MaxTime == 5
MaxAmount == 2
MaxExpiry == 2
MaxOver == 2
MaxAdmits == 4
NumCallers == 2
KeysMaxTime == 3

Keys == {"k1"}
AllKeys == {"k1", "k2"}
Caps == {"acquire_entry", "get_moving_window"}
Classes == {"FixedWindowRateLimiter", "FixedWindowElasticExpiryRateLimiter",
            "MovingWindowRateLimiter"}

VARIABLES
    now,        \* the clock, in ticks (time.time(), utcnow(), $$NOW)
    item,       \* the RateLimitItem: [amount, expiry (seconds)]
    limiter,    \* the constructed strategy: [cls, caps of its storage]
    counters,   \* collection "counters": _id -> [count, expireAt]
    windows,    \* collection "windows":  _id -> [entries, expireAt]
    inflight,   \* bag of the requests sent to the store and not yet applied
    reachable,  \* whether the MongoDB server answers the client
    reading,    \* a get_window_stats call between its two reads, or its result
    obs,        \* what the last operation returned to its caller
    hist,       \* per key, bookkeeping of the hits made so far
    admits      \* per key, timestamps of the admitted moving-window hits

vars == <<now, item, limiter, counters, windows, inflight, reachable, reading,
          obs, hist, admits>>

\* ---------------------------------------------------------------- helpers
Min(a, b) == IF a < b THEN a ELSE b
Max(a, b) == IF a > b THEN a ELSE b

Range(s) == {s[i] : i \in 1..Len(s)}
SetMin(S) == CHOOSE x \in S : \A y \in S : x <= y
SetMax(S) == CHOOSE x \in S : \A y \in S : x >= y

\* collection[key] := doc (insert or replace)
Put(coll, key, doc) ==
    [x \in (DOMAIN coll) \cup {key} |-> IF x = key THEN doc ELSE coll[x]]

\* collection without key (find_one_and_delete, TTL removal)
Delete(coll, key) == [x \in (DOMAIN coll) \ {key} |-> coll[x]]

\* datetime.timedelta(seconds=s), in ticks
timedelta(s) == s * TicksPerSec

\* calendar.timegm(d.timetuple()) and int(t): whole seconds of a tick count
timegm(t) == t \div TicksPerSec

\* ---------------------------------------------------------------- storage
\* MongoDBStorage.get over the collection coll
get_from(coll, key) ==
    IF key \in DOMAIN coll /\ coll[key].expireAt >= now
    THEN coll[key].count
    ELSE 0

\* MongoDBStorage.get_expiry over the collection coll
get_expiry_from(coll, key) ==
    timegm(IF key \in DOMAIN coll THEN coll[key].expireAt ELSE now)

\* MongoDBStorage.get
get(key) == get_from(counters, key)

\* MongoDBStorage.get_expiry
get_expiry(key) == get_expiry_from(counters, key)

\* the error a pymongo call raises while the server cannot be reached
BackendError == "ServerSelectionTimeoutError"

\* MongoDBStorage.check: try server_info(), bare except
check == IF reachable THEN TRUE ELSE FALSE

\* variant: acquire_entry's except clause catches every error
acquire_catches_any(err) == TRUE

\* acquire_entry's except clause: the errors it turns into False
acquire_catches(err) == err = "DuplicateKeyError"

\* the pipeline's condition {"$lt": ["$expireAt", "$$NOW"]}; a missing
\* field compares below every date, so an upserted document is "expired"
pipeline_expired(coll, key, NOW) ==
    key \notin DOMAIN coll \/ coll[key].expireAt < NOW

\* variant: elastic_expiry is ignored, an unexpired record keeps its expireAt
incr_doc_rigid(coll, key, expiration, elastic_expiry, NOW) ==
    IF pipeline_expired(coll, key, NOW)
    THEN [count |-> 1, expireAt |-> expiration]
    ELSE [count |-> coll[key].count + 1, expireAt |-> coll[key].expireAt]

\* variant: every increment resets expireAt
incr_doc_elastic(coll, key, expiration, elastic_expiry, NOW) ==
    IF pipeline_expired(coll, key, NOW)
    THEN [count |-> 1, expireAt |-> expiration]
    ELSE [count |-> coll[key].count + 1, expireAt |-> expiration]

\* variant: the increment of an unexpired record is lost
incr_doc_lost(coll, key, expiration, elastic_expiry, NOW) ==
    IF pipeline_expired(coll, key, NOW)
    THEN [count |-> 1, expireAt |-> expiration]
    ELSE [count |-> coll[key].count,
          expireAt |-> IF elastic_expiry THEN expiration
                       ELSE coll[key].expireAt]

\* the document find_one_and_update leaves in "counters" (upsert=True)
incr_doc(coll, key, expiration, elastic_expiry, NOW) ==
    IF pipeline_expired(coll, key, NOW)
    THEN [count |-> 1, expireAt |-> expiration]
    ELSE [count |-> coll[key].count + 1,
          expireAt |-> IF elastic_expiry THEN expiration
                       ELSE coll[key].expireAt]

\* variant: the delete filter matches every document
clear_all(coll, key) == <<>>

\* variant: the delete filter matches no document
clear_nothing(coll, key) == coll

\* MongoDBStorage.clear on each collection
clear(coll, key) == Delete(coll, key)

\* variant: an entry exactly expiry old no longer blocks the update
acquire_matches_strict(doc, limit, expiry, timestamp) ==
    \/ Len(doc.entries) < limit
    \/ ~(doc.entries[limit] > timestamp - timedelta(expiry))

\* the filter of acquire_entry's update_one:
\* {"_id": key, "entries.<limit-1>": {"$not": {"$gte": timestamp - expiry}}}
acquire_matches(doc, limit, expiry, timestamp) ==
    \/ Len(doc.entries) < limit
    \/ ~(doc.entries[limit] >= timestamp - timedelta(expiry))

\* $push {"$each": [timestamp], "$position": 0, "$slice": limit}
push_slice(entries, limit, timestamp) ==
    SubSeq(<<timestamp>> \o entries, 1, Min(limit, Len(entries) + 1))

\* variant: an entry exactly expiry old is filtered out
window_filter_strict(entries, expiry, timestamp) ==
    SelectSeq(entries, LAMBDA e : e > timestamp - timedelta(expiry))

\* the "$filter" stage of get_moving_window
window_filter(entries, expiry, timestamp) ==
    SelectSeq(entries, LAMBDA e : e >= timestamp - timedelta(expiry))

\* the "$group" accumulator returned as the start of the window
group_start(entries) == SetMax(Range(entries))

\* MongoDBStorage.get_moving_window: <<start of window, number of entries>>
get_moving_window(key, limit, expiry) ==
    LET timestamp == now
        result == IF key \in DOMAIN windows
                  THEN window_filter(windows[key].entries, expiry, timestamp)
                  ELSE <<>>
    IN  IF result # <<>>
        THEN <<timegm(group_start(result)), Len(result)>>
        ELSE <<timegm(timestamp), 0>>


\* variant: a rejected update still refreshes the record's expireAt
acquire_entry_refreshing(coll, key, limit, expiry, timestamp, expiration) ==
    IF key \notin DOMAIN coll
    THEN [ok |-> TRUE,
          coll |-> Put(coll, key, [entries |-> <<timestamp>>,
                                   expireAt |-> expiration])]
    ELSE IF acquire_matches(coll[key], limit, expiry, timestamp)
    THEN [ok |-> TRUE,
          coll |-> Put(coll, key,
                       [entries |-> push_slice(coll[key].entries, limit, timestamp),
                        expireAt |-> expiration])]
    ELSE [ok |-> FALSE,
          coll |-> Put(coll, key, [coll[key] EXCEPT !.expireAt = expiration])]

\* the outcome of acquire_entry's update_one(..., upsert=True) on "windows":
\* [ok |-> True / DuplicateKeyError caught, coll |-> the collection after]
acquire_entry(coll, key, limit, expiry, timestamp, expiration) ==
    IF key \notin DOMAIN coll
    THEN [ok |-> TRUE,
          coll |-> Put(coll, key, [entries |-> <<timestamp>>,
                                   expireAt |-> expiration])]
    ELSE IF acquire_matches(coll[key], limit, expiry, timestamp)
    THEN [ok |-> TRUE,
          coll |-> Put(coll, key,
                       [entries |-> push_slice(coll[key].entries, limit, timestamp),
                        expireAt |-> expiration])]
    ELSE [ok |-> FALSE, coll |-> coll]

\* ---------------------------------------------------------------- strategies
Fixed == "FixedWindowRateLimiter"
Elastic == "FixedWindowElasticExpiryRateLimiter"
Moving == "MovingWindowRateLimiter"

\* MovingWindowRateLimiter.__init__: the condition that raises
init_raises(caps) ==
    ~(("acquire_entry" \in caps) \/ ("get_moving_window" \in caps))

\* variant: the comparison admits one hit fewer
hit_admits_strict(count, amount) == count < amount

\* FixedWindowRateLimiter.hit / FixedWindowElasticExpiryRateLimiter.hit:
\* the comparison of incr's result with item.amount
hit_admits(count, amount) == count <= amount

\* FixedWindowRateLimiter.test
fixed_test(key) == get(key) < item.amount

\* variant: remaining is not clamped at 0
fixed_get_window_stats_unclamped(key) ==
    <<get_expiry(key), item.amount - get(key)>>

\* FixedWindowRateLimiter.get_window_stats: <<reset, remaining>>
fixed_get_window_stats(key) ==
    <<get_expiry(key), Max(0, item.amount - get(key))>>

\* MovingWindowRateLimiter.test
moving_test(key) ==
    get_moving_window(key, item.amount, item.expiry)[2] < item.amount

\* MovingWindowRateLimiter.get_window_stats: <<reset, remaining>>
moving_get_window_stats(key) ==
    LET res == get_moving_window(key, item.amount, item.expiry)
    IN  <<res[1] + item.expiry, item.amount - res[2]>>

\* ---------------------------------------------------------------- bookkeeping
NoLimiter == [cls |-> "none", caps |-> {}]

Quiet == [op |-> "none", key |-> "-", t |-> -1, res |-> FALSE, count |-> -1,
          reset |-> -1, remaining |-> -1, gap |-> -1, full |-> FALSE,
          caps |-> {}, err |-> "-"]

\* wend/n/rets/radm: the run of hits that began on an absent counter record
\* and were applied no later than wend (= call time of its first hit +
\* expiry): their number, the counts they returned, how many were admitted;
\* last/cadm: time of the last hit and number of admitted hits since a hit
\* came more than expiry after its predecessor
NoHist == [wend |-> -1, n |-> 0, rets |-> {}, radm |-> 0, last |-> -1, cadm |-> 0]

NoAdmits == [t \in 0..MaxTime |-> 0]

\* no get_window_stats call under way; snaps: the <<reset, remaining>> pairs
\* of the states the counter record went through during the call
NoRead == [key |-> "-", remaining |-> -1, reset |-> -1, snaps |-> {},
           done |-> FALSE]

HitHist(h, t, NOW, fresh, expiration, count, admitted) ==
    LET one == IF admitted THEN 1 ELSE 0
        inrun == h.wend >= 0 /\ NOW <= h.wend
        restart == h.last < 0 \/ t - h.last > timedelta(item.expiry)
    IN  [wend |-> IF fresh THEN expiration ELSE IF inrun THEN h.wend ELSE -1,
         n    |-> IF fresh THEN 1 ELSE IF inrun THEN h.n + 1 ELSE 0,
         rets |-> IF fresh THEN {count}
                  ELSE IF inrun THEN h.rets \cup {count} ELSE {},
         radm |-> IF fresh THEN one ELSE IF inrun THEN h.radm + one ELSE 0,
         last |-> t,
         cadm |-> (IF restart THEN 0 ELSE h.cadm) + one]

\* what an operation that raised err leaves to its caller
Raised(op, key, err) ==
    [Quiet EXCEPT !.op = op, !.key = key, !.t = now, !.err = err]

TypeOK ==
    /\ now \in 0..MaxTime
    /\ reachable \in BOOLEAN
    /\ item \in [amount : 1..MaxAmount, expiry : 1..MaxExpiry]
    /\ limiter.cls \in Classes \cup {"none"}
    /\ DOMAIN counters \subseteq AllKeys
    /\ DOMAIN windows \subseteq AllKeys
    /\ BagCardinality(inflight) <= NumCallers

Init ==
    /\ now = 0
    /\ item \in [amount : 1..MaxAmount, expiry : 1..MaxExpiry]
    /\ limiter = NoLimiter
    /\ counters = <<>>
    /\ windows = <<>>
    /\ inflight = EmptyBag
    /\ reachable = TRUE
    /\ reading = NoRead
    /\ obs = Quiet
    /\ hist = [k \in AllKeys |-> NoHist]
    /\ admits = [k \in AllKeys |-> NoAdmits]

\* ---------------------------------------------------------------- actions
\* strategy construction over a storage offering the operations in caps
Construct(cls, caps) ==
    /\ limiter = NoLimiter
    /\ cls # Moving => caps = Caps
    /\ IF cls = Moving /\ init_raises(caps)
       THEN /\ limiter' = limiter
            /\ obs' = [Quiet EXCEPT !.op = "construct", !.caps = caps,
                                    !.err = "NotImplementedError"]
       ELSE /\ limiter' = [cls |-> cls, caps |-> caps]
            /\ obs' = [Quiet EXCEPT !.op = "construct", !.caps = caps,
                                    !.res = TRUE]
    /\ UNCHANGED <<now, item, reading, counters, windows, inflight, reachable, hist,
                   admits>>

\* incr applied at the store at time NOW for a call made at time t
ApplyIncr(key, elastic_expiry, t, expiration, NOW) ==
    LET doc == incr_doc(counters, key, expiration, elastic_expiry, NOW)
        admitted == hit_admits(doc.count, item.amount)
        h == hist[key]
    IN  /\ counters' = Put(counters, key, doc)
        /\ hist' = [hist EXCEPT ![key] =
                      HitHist(h, t, NOW, key \notin DOMAIN counters,
                              expiration, doc.count, admitted)]
        /\ UNCHANGED <<windows, admits>>

\* what a fixed-window hit returns, with the time since the previous hit
\* and whether amount hits had been admitted before it
HitObs(key, count) ==
    [Quiet EXCEPT !.op = "hit", !.key = key, !.t = now,
                  !.res = hit_admits(count, item.amount), !.count = count,
                  !.gap = IF hist[key].last < 0 THEN -1 ELSE now - hist[key].last,
                  !.full = (hist[key].cadm >= item.amount)]

CanIncr(key) ==
    IF key \in DOMAIN counters
    THEN counters[key].count < item.amount + MaxOver
    ELSE TRUE

\* FixedWindowRateLimiter.hit
FixedHit(key) ==
    /\ limiter.cls = Fixed
    /\ IF reachable
       THEN /\ CanIncr(key)
            /\ ApplyIncr(key, FALSE, now, now + timedelta(item.expiry), now)
            /\ obs' = HitObs(key, counters'[key].count)
       ELSE /\ obs' = Raised("hit", key, BackendError)
            /\ UNCHANGED <<counters, windows, hist, admits>>
    /\ UNCHANGED <<now, item, reading, limiter, inflight, reachable>>

\* FixedWindowElasticExpiryRateLimiter.hit
ElasticHit(key) ==
    /\ limiter.cls = Elastic
    /\ IF reachable
       THEN /\ CanIncr(key)
            /\ ApplyIncr(key, TRUE, now, now + timedelta(item.expiry), now)
            /\ obs' = HitObs(key, counters'[key].count)
       ELSE /\ obs' = Raised("hit", key, BackendError)
            /\ UNCHANGED <<counters, windows, hist, admits>>
    /\ UNCHANGED <<now, item, reading, limiter, inflight, reachable>>

\* acquire_entry applied at the store for a call made at time timestamp
ApplyAcquire(key, timestamp, expiration) ==
    LET r == acquire_entry(windows, key, item.amount, item.expiry,
                           timestamp, expiration)
    IN  /\ windows' = r.coll
        /\ admits' = IF r.ok
                     THEN [admits EXCEPT ![key][timestamp] = @ + 1]
                     ELSE admits
        /\ UNCHANGED <<counters, hist>>

RECURSIVE SumUpTo(_, _)
SumUpTo(f, t) == IF t < 0 THEN 0 ELSE f[t] + SumUpTo(f, t - 1)

CanAcquire(key) == SumUpTo(admits[key], MaxTime) < MaxAdmits

\* MovingWindowRateLimiter.hit
MovingHit(key) ==
    /\ limiter.cls = Moving
    /\ IF "acquire_entry" \notin limiter.caps
       THEN /\ obs' = Raised("hit", key, "AttributeError")
            /\ UNCHANGED <<counters, windows, hist, admits>>
       ELSE IF reachable
       THEN /\ CanAcquire(key)
            /\ ApplyAcquire(key, now, now + timedelta(item.expiry))
            /\ obs' = [Quiet EXCEPT !.op = "hit", !.key = key, !.t = now,
                                    !.res = (admits'[key] # admits[key])]
       ELSE /\ obs' = IF acquire_catches(BackendError)
                      THEN [Quiet EXCEPT !.op = "hit", !.key = key, !.t = now]
                      ELSE Raised("hit", key, BackendError)
            /\ UNCHANGED <<counters, windows, hist, admits>>
    /\ UNCHANGED <<now, item, reading, limiter, inflight, reachable>>

\* variant: test drops a counter record it finds expired
FixedTest_evicting(key) ==
    /\ limiter.cls \in {Fixed, Elastic}
    /\ obs' = IF reachable
              THEN [Quiet EXCEPT !.op = "test", !.key = key, !.t = now,
                                 !.res = fixed_test(key)]
              ELSE Raised("test", key, BackendError)
    /\ counters' = IF reachable /\ key \in DOMAIN counters
                        /\ counters[key].expireAt < now
                   THEN Delete(counters, key) ELSE counters
    /\ UNCHANGED <<now, item, reading, limiter, windows, inflight, reachable, hist,
                   admits>>

\* FixedWindowRateLimiter.test (inherited by the elastic limiter)
FixedTest(key) ==
    /\ limiter.cls \in {Fixed, Elastic}
    /\ obs' = IF reachable
              THEN [Quiet EXCEPT !.op = "test", !.key = key, !.t = now,
                                 !.res = fixed_test(key)]
              ELSE Raised("test", key, BackendError)
    /\ UNCHANGED <<now, item, reading, limiter, counters, windows, inflight, reachable,
                   hist, admits>>

\* FixedWindowRateLimiter.get_window_stats (inherited by the elastic limiter)
FixedStats(key) ==
    /\ limiter.cls \in {Fixed, Elastic}
    /\ obs' = IF reachable
              THEN [Quiet EXCEPT !.op = "get_window_stats", !.key = key,
                                 !.t = now,
                                 !.reset = fixed_get_window_stats(key)[1],
                                 !.remaining = fixed_get_window_stats(key)[2]]
              ELSE Raised("get_window_stats", key, BackendError)
    /\ UNCHANGED <<now, item, reading, limiter, counters, windows, inflight, reachable,
                   hist, admits>>

\* MovingWindowRateLimiter.test
MovingTest(key) ==
    /\ limiter.cls = Moving
    /\ obs' = IF "get_moving_window" \notin limiter.caps
              THEN Raised("test", key, "AttributeError")
              ELSE IF reachable
              THEN [Quiet EXCEPT !.op = "test", !.key = key, !.t = now,
                                 !.res = moving_test(key)]
              ELSE Raised("test", key, BackendError)
    /\ UNCHANGED <<now, item, reading, limiter, counters, windows, inflight, reachable,
                   hist, admits>>

\* MovingWindowRateLimiter.get_window_stats
MovingStats(key) ==
    /\ limiter.cls = Moving
    /\ obs' = IF "get_moving_window" \notin limiter.caps
              THEN Raised("get_window_stats", key, "AttributeError")
              ELSE IF reachable
              THEN [Quiet EXCEPT !.op = "get_window_stats", !.key = key,
                                 !.t = now,
                                 !.reset = moving_get_window_stats(key)[1],
                                 !.remaining = moving_get_window_stats(key)[2]]
              ELSE Raised("get_window_stats", key, BackendError)
    /\ UNCHANGED <<now, item, reading, limiter, counters, windows, inflight, reachable,
                   hist, admits>>

\* RateLimiter.clear -> MongoDBStorage.clear
Clear(key) ==
    /\ limiter # NoLimiter
    /\ IF reachable
       THEN /\ counters' = clear(counters, key)
            /\ windows' = clear(windows, key)
            /\ hist' = [hist EXCEPT ![key] = NoHist]
            /\ admits' = [admits EXCEPT ![key] = NoAdmits]
            /\ obs' = [Quiet EXCEPT !.op = "clear", !.key = key, !.t = now,
                         !.count = Cardinality({c \in {"counters", "windows"} :
                                      key \in DOMAIN (IF c = "counters"
                                                      THEN counters
                                                      ELSE windows)}),
                         !.full = IF limiter.cls = Moving
                                  THEN ~moving_test(key) ELSE ~fixed_test(key)]
       ELSE /\ obs' = Raised("clear", key, BackendError)
            /\ UNCHANGED <<counters, windows, hist, admits>>
    /\ UNCHANGED <<now, item, reading, limiter, inflight, reachable>>

\* MongoDBStorage.check
Check ==
    /\ obs' = [Quiet EXCEPT !.op = "check", !.t = now, !.res = check]
    /\ UNCHANGED <<now, item, reading, limiter, counters, windows, inflight, reachable,
                   hist, admits>>

\* the server stops answering
Disconnect ==
    /\ reachable
    /\ reachable' = FALSE
    /\ obs' = Quiet
    /\ UNCHANGED <<now, item, reading, limiter, counters, windows, inflight, hist, admits>>

\* the server answers again
Reconnect ==
    /\ ~reachable
    /\ reachable' = TRUE
    /\ obs' = Quiet
    /\ UNCHANGED <<now, item, reading, limiter, counters, windows, inflight, hist, admits>>

\* the clock advances by one tick
Forward ==
    /\ now < MaxTime
    /\ now' = now + 1
    /\ obs' = Quiet
    /\ UNCHANGED <<item, reading, limiter, counters, windows, inflight, reachable, hist,
                   admits>>

\* the TTL index on counters.expireAt removes a document whose expireAt passed
TtlCounters(key) ==
    /\ key \in DOMAIN counters
    /\ counters[key].expireAt < now
    /\ counters' = Delete(counters, key)
    /\ obs' = Quiet
    /\ UNCHANGED <<now, item, reading, limiter, windows, inflight, reachable, hist,
                   admits>>

\* the TTL index on windows.expireAt removes a document whose expireAt passed
TtlWindows(key) ==
    /\ key \in DOMAIN windows
    /\ windows[key].expireAt < now
    /\ windows' = Delete(windows, key)
    /\ obs' = Quiet
    /\ UNCHANGED <<now, item, reading, limiter, counters, inflight, reachable, hist,
                   admits>>

Next ==
    \/ \E cls \in Classes, caps \in SUBSET Caps : Construct(cls, caps)
    \/ \E key \in Keys : FixedHit(key)
    \/ \E key \in Keys : ElasticHit(key)
    \/ \E key \in Keys : MovingHit(key)
    \/ \E key \in Keys : FixedTest(key)
    \/ \E key \in Keys : FixedStats(key)
    \/ \E key \in Keys : MovingTest(key)
    \/ \E key \in Keys : MovingStats(key)
    \/ \E key \in Keys : Clear(key)
    \/ Check
    \/ Disconnect
    \/ Reconnect
    \/ \E key \in Keys : TtlCounters(key)
    \/ \E key \in Keys : TtlWindows(key)
    \/ Forward

Spec == Init /\ [][Next]_vars

\* ---------------------------------------------------------------- callers
\* Several callers share the store.  A call reads the clock in the caller
\* (expiration in incr, timestamp and expireAt in acquire_entry); the update
\* is applied by the store later, atomically, with its own $$NOW.
Request(key) ==
    [key |-> key, timestamp |-> now,
     expiration |-> now + timedelta(item.expiry)]

\* a limiter over the MongoDB storage, which offers both window operations
ConstructMongo(cls) == Construct(cls, Caps)

\* incr: the caller computes expiration and sends find_one_and_update
IncrCall(key) ==
    /\ limiter.cls \in {Fixed, Elastic}
    /\ BagCardinality(inflight) < NumCallers
    /\ CanIncr(key)
    /\ inflight' = inflight (+) SetToBag({Request(key)})
    /\ UNCHANGED <<now, item, reading, limiter, counters, windows, reachable, obs, hist,
                   admits>>

\* incr: the store applies the update and the hit returns
IncrApply(req) ==
    /\ limiter.cls \in {Fixed, Elastic}
    /\ BagIn(req, inflight)
    /\ ApplyIncr(req.key, limiter.cls = Elastic, req.timestamp,
                 req.expiration, now)
    /\ inflight' = inflight (-) SetToBag({req})
    /\ UNCHANGED <<now, item, reading, limiter, reachable, obs>>

\* acquire_entry: the caller reads the clock and sends update_one
AcquireCall(key) ==
    /\ limiter.cls = Moving
    /\ BagCardinality(inflight) < NumCallers
    /\ CanAcquire(key)
    /\ inflight' = inflight (+) SetToBag({Request(key)})
    /\ UNCHANGED <<now, item, reading, limiter, counters, windows, reachable, obs, hist,
                   admits>>

\* acquire_entry: the store applies the update and the hit returns
AcquireApply(req) ==
    /\ limiter.cls = Moving
    /\ BagIn(req, inflight)
    /\ ApplyAcquire(req.key, req.timestamp, req.expiration)
    /\ inflight' = inflight (-) SetToBag({req})
    /\ UNCHANGED <<now, item, reading, limiter, reachable, obs>>

NextConc ==
    \/ \E cls \in Classes : ConstructMongo(cls)
    \/ \E key \in Keys : IncrCall(key)
    \/ \E req \in BagToSet(inflight) : IncrApply(req)
    \/ \E key \in Keys : AcquireCall(key)
    \/ \E req \in BagToSet(inflight) : AcquireApply(req)
    \/ \E key \in Keys : TtlCounters(key)
    \/ \E key \in Keys : TtlWindows(key)
    \/ Forward

SpecConc == Init /\ [][NextConc]_vars

\* ---------------------------------------------------------------- keys
\* One limiter used with two keys (item.key_for of two identifiers), every
\* call applied when made, up to time KeysMaxTime; the item expires after one
\* second, so that records of both keys expire within that time.
InitKeys == Init /\ item.expiry = 1

ForwardKeys == now < KeysMaxTime /\ Forward

NextKeys ==
    \/ \E cls \in Classes : ConstructMongo(cls)
    \/ \E key \in AllKeys : FixedHit(key)
    \/ \E key \in AllKeys : ElasticHit(key)
    \/ \E key \in AllKeys : MovingHit(key)
    \/ \E key \in AllKeys : FixedTest(key)
    \/ \E key \in AllKeys : FixedStats(key)
    \/ \E key \in AllKeys : MovingTest(key)
    \/ \E key \in AllKeys : MovingStats(key)
    \/ \E key \in AllKeys : Clear(key)
    \/ \E key \in AllKeys : TtlCounters(key)
    \/ \E key \in AllKeys : TtlWindows(key)
    \/ ForwardKeys

SpecKeys == InitKeys /\ [][NextKeys]_vars

\* ---------------------------------------------------------------- stats
\* FixedWindowRateLimiter.get_window_stats awaits get and then get_expiry;
\* between the two reads other callers hit or clear the key, the TTL index
\* removes the record and time passes.
Reading == reading.key # "-" /\ ~reading.done

\* the call under way has seen the counter record of the next state
Seen ==
    IF Reading
    THEN [reading EXCEPT
            !.snaps = @ \cup {fixed_get_window_stats(k)' : k \in {reading.key}}]
    ELSE reading

\* get_window_stats, first read: remaining = max(0, amount - get(key))
StatsGet(key) ==
    /\ limiter.cls \in {Fixed, Elastic}
    /\ ~Reading
    /\ reading' = [key |-> key,
                   remaining |-> Max(0, item.amount - get(key)),
                   reset |-> -1,
                   snaps |-> {fixed_get_window_stats(key)},
                   done |-> FALSE]
    /\ obs' = Quiet
    /\ UNCHANGED <<now, item, limiter, counters, windows, inflight, reachable,
                   hist, admits>>

\* get_window_stats, second read: reset = get_expiry(key), and return
StatsGetExpiry ==
    /\ Reading
    /\ reading' = [reading EXCEPT !.reset = get_expiry(reading.key),
                                  !.done = TRUE]
    /\ obs' = [Quiet EXCEPT !.op = "get_window_stats", !.key = reading.key,
                            !.t = now, !.reset = get_expiry(reading.key),
                            !.remaining = reading.remaining]
    /\ UNCHANGED <<now, item, limiter, counters, windows, inflight, reachable,
                   hist, admits>>

\* a hit by another caller
OtherHit(key) ==
    /\ limiter.cls \in {Fixed, Elastic}
    /\ CanIncr(key)
    /\ ApplyIncr(key, limiter.cls = Elastic, now,
                 now + timedelta(item.expiry), now)
    /\ obs' = HitObs(key, counters'[key].count)
    /\ UNCHANGED <<now, item, limiter, inflight, reachable>>
    /\ reading' = Seen

\* a clear by another caller
OtherClear(key) ==
    /\ limiter.cls \in {Fixed, Elastic}
    /\ counters' = clear(counters, key)
    /\ windows' = clear(windows, key)
    /\ hist' = [hist EXCEPT ![key] = NoHist]
    /\ admits' = [admits EXCEPT ![key] = NoAdmits]
    /\ obs' = [Quiet EXCEPT !.op = "clear", !.key = key, !.t = now]
    /\ UNCHANGED <<now, item, limiter, inflight, reachable>>
    /\ reading' = Seen

\* the TTL index removes an expired counter record
OtherTtl(key) ==
    /\ key \in DOMAIN counters
    /\ counters[key].expireAt < now
    /\ counters' = Delete(counters, key)
    /\ obs' = Quiet
    /\ UNCHANGED <<now, item, limiter, windows, inflight, reachable, hist,
                   admits>>
    /\ reading' = Seen

\* the clock advances by one tick
OtherForward ==
    /\ now < MaxTime
    /\ now' = now + 1
    /\ obs' = Quiet
    /\ UNCHANGED <<item, limiter, counters, windows, inflight, reachable, hist,
                   admits>>
    /\ reading' = Seen

NextStats ==
    \/ \E cls \in {Fixed, Elastic} : ConstructMongo(cls)
    \/ \E key \in Keys : StatsGet(key)
    \/ StatsGetExpiry
    \/ \E key \in Keys : OtherHit(key)
    \/ \E key \in Keys : OtherClear(key)
    \/ \E key \in Keys : OtherTtl(key)
    \/ OtherForward

SpecStats == Init /\ [][NextStats]_vars

\* ---------------------------------------------------------------- claims
\* trailing-window count of the admitted moving-window hits at instant T
RECURSIVE AdmittedBetween(_, _, _)
AdmittedBetween(f, lo, hi) ==
    IF hi < lo \/ hi < 0 THEN 0
    ELSE (IF hi \in DOMAIN f THEN f[hi] ELSE 0) + AdmittedBetween(f, lo, hi - 1)

\* C1: starting from a key with no counter record, of the fixed-window hits
\* that fall inside the window opened by the first one (before its call time
\* + expiry), exactly the first `amount` are admitted and every later one is
\* rejected.
C1_FixedWindowAdmitsFirstAmount ==
    \A k \in Keys :
        (limiter.cls = Fixed /\ obs.op = "hit" /\ obs.key = k /\ obs.err = "-"
            /\ hist[k].wend >= 0 /\ now < hist[k].wend)
        => /\ obs.res = (hist[k].n <= item.amount)
           /\ hist[k].radm = Min(hist[k].n, item.amount)

C1_Witness ==
    \E k \in Keys :
        /\ limiter.cls = Fixed /\ obs.op = "hit" /\ obs.key = k /\ obs.err = "-"
        /\ hist[k].wend >= 0 /\ now < hist[k].wend
        /\ hist[k].n = item.amount + 1
        /\ ~obs.res

\* C2: at every instant T, the number of admitted moving-window hits whose
\* timestamp lies in [T - expiry, T] is at most `amount`, for any number of
\* callers and any interleaving.
C2_MovingWindowNeverExceedsAmount ==
    \A k \in Keys : \A T \in 0..MaxTime :
        limiter.cls = Moving
        => AdmittedBetween(admits[k], T - timedelta(item.expiry), T) <= item.amount

\* C3: callers hitting the fixed-window limiter concurrently inside one window
\* that began on an absent record: the counts incr returned are exactly
\* 1..N, the stored count is N, and min(N, amount) hits were admitted.
C3_IncrNoLostUpdate ==
    \A k \in Keys :
        (limiter.cls = Fixed /\ hist[k].wend >= 0 /\ now < hist[k].wend)
        => /\ hist[k].rets = 1..hist[k].n
           /\ k \in DOMAIN counters
           /\ counters[k].count = hist[k].n
           /\ hist[k].radm = Min(hist[k].n, item.amount)

C3_Witness ==
    \E k \in Keys :
        /\ limiter.cls = Fixed /\ hist[k].wend >= 0 /\ now < hist[k].wend
        /\ hist[k].n > item.amount
        /\ \E req \in BagToSet(inflight) : req.timestamp < hist[k].last

\* C4: right after every elastic-expiry hit made at time t (admitted or
\* rejected; record absent, unexpired or expired), the reset reported by
\* get_window_stats, a timestamp in whole seconds, is the second of t plus
\* expiry.
C4_ElasticHitResetsExpiry ==
    \A k \in Keys :
        (limiter.cls = Elastic /\ obs.op = "hit" /\ obs.key = k /\ obs.err = "-")
        => fixed_get_window_stats(k)[1] = timegm(obs.t) + item.expiry

C4_Witness ==
    \E k \in Keys :
        /\ limiter.cls = Elastic /\ obs.op = "hit" /\ obs.key = k /\ obs.err = "-"
        /\ ~obs.res
        /\ obs.gap > 0
        /\ obs.t % TicksPerSec # 0

\* C5: once `amount` elastic-expiry hits have been admitted, a further hit
\* made less than expiry after the previous hit is rejected; a hit made more
\* than expiry after the previous hit is admitted and leaves
\* remaining == amount - 1.
C5_ElasticWindowClosure ==
    \A k \in Keys :
        (limiter.cls = Elastic /\ obs.op = "hit" /\ obs.key = k /\ obs.err = "-")
        => /\ (obs.full /\ obs.gap >= 0 /\ obs.gap < timedelta(item.expiry))
                => ~obs.res
           /\ obs.gap > timedelta(item.expiry)
                => (obs.res /\ fixed_get_window_stats(k)[2] = item.amount - 1)

C5_Witness ==
    \E k \in Keys :
        /\ limiter.cls = Elastic /\ obs.op = "hit" /\ obs.key = k /\ obs.err = "-"
        /\ obs.full
        /\ obs.gap > timedelta(item.expiry)
        /\ obs.res
        /\ k \in DOMAIN counters /\ counters[k].count = 1

\* C6: exactly expiry after the hit that created the counter record the
\* fixed window has ended: get_window_stats reports remaining == amount, and
\* a hit at that instant is admitted and starts a record with count 1.
C6_FixedWindowEndsAtExpiry ==
    \A k \in Keys :
        (limiter.cls = Fixed /\ hist[k].wend >= 0 /\ now = hist[k].wend)
        => /\ fixed_get_window_stats(k)[2] = item.amount
           /\ (obs.op = "hit" /\ obs.key = k /\ obs.err = "-")
                => (obs.res /\ obs.count = 1)

\* C7: test and get_window_stats leave every counter record and every
\* window-entries record unchanged.
C7_ReadsAreReadOnly ==
    [][obs'.op \in {"test", "get_window_stats"}
        => (counters' = counters /\ windows' = windows)]_vars

C7_Witness ==
    \E k \in Keys :
        /\ obs.op = "test" /\ obs.key = k
        /\ k \in DOMAIN counters
        /\ counters[k].expireAt < now

\* C8: right after clear(key) a second clear changes nothing, get_window_stats
\* reports remaining == amount, and the next hit is admitted.
C8_ClearIdempotentAndResets ==
    \A k \in Keys :
        (obs.op = "clear" /\ obs.key = k /\ obs.err = "-")
        => /\ clear(counters, k) = counters
           /\ clear(windows, k) = windows
           /\ limiter.cls \in {Fixed, Elastic}
                => /\ fixed_get_window_stats(k)[2] = item.amount
                   /\ hit_admits(incr_doc(counters, k, now + timedelta(item.expiry),
                                          limiter.cls = Elastic, now).count,
                                 item.amount)
           /\ (limiter.cls = Moving /\ limiter.caps = Caps)
                => /\ moving_get_window_stats(k)[2] = item.amount
                   /\ acquire_entry(windows, k, item.amount, item.expiry, now,
                                    now + timedelta(item.expiry)).ok

C8_Witness ==
    \E k \in Keys :
        /\ obs.op = "clear" /\ obs.key = k
        /\ obs.count = 1
        /\ obs.full

\* C9: a MovingWindowRateLimiter exists only over a storage that implements
\* both acquire_entry and get_moving_window.
C9_MovingWindowNeedsBothOperations ==
    limiter.cls = Moving => limiter.caps = Caps

\* C10: get_moving_window returns the number of stored entries with timestamp
\* >= now - expiry and the timestamp (in whole seconds) of the oldest of them,
\* or (now, 0) when there is none; get_window_stats reports that start plus
\* expiry as reset.
InWindow(k) ==
    IF k \in DOMAIN windows
    THEN {i \in 1..Len(windows[k].entries) :
            windows[k].entries[i] >= now - timedelta(item.expiry)}
    ELSE {}

OldestInWindow(k) == SetMin({windows[k].entries[i] : i \in InWindow(k)})

C11_RejectedHitLeavesWindowUnchanged ==
    [][(limiter.cls = Moving /\ obs'.op = "hit" /\ obs'.err = "-" /\ ~obs'.res)
        => windows' = windows]_vars

C11_Witness ==
    \E k \in Keys :
        /\ limiter.cls = Moving /\ obs.op = "hit" /\ obs.key = k
        /\ obs.err = "-" /\ ~obs.res /\ reachable
        /\ k \in DOMAIN windows
        /\ Len(windows[k].entries) = item.amount
        /\ windows[k].expireAt < now + timedelta(item.expiry)

\* C12: for the moving window, after hits and time advances on a key,
\* get_window_stats reports remaining == amount - (number of admitted hits
\* with timestamp >= now - expiry).
C12_MovingRemainingTracksAdmitted ==
    \A k \in Keys :
        limiter.cls = Moving
        => /\ moving_get_window_stats(k)[2]
                = item.amount
                  - AdmittedBetween(admits[k], now - timedelta(item.expiry), now)
           /\ (obs.op = "get_window_stats" /\ obs.key = k /\ obs.err = "-")
                => obs.remaining = moving_get_window_stats(k)[2]

C12_Witness ==
    \E k \in Keys :
        /\ limiter.cls = Moving
        /\ obs.op = "get_window_stats" /\ obs.key = k /\ obs.err = "-"
        /\ obs.remaining > 0
        /\ obs.remaining < item.amount
        /\ SumUpTo(admits[k], MaxTime) > item.amount
        /\ now >= timedelta(item.expiry)
        /\ admits[k][now - timedelta(item.expiry)] > 0

\* C13: in every reachable state with no call under way, test returns true
\* exactly when a hit made at the same instant would be admitted, for the
\* fixed window and for the moving window.
C13_TestAgreesWithHit ==
    \A k \in Keys :
        inflight = EmptyBag
        => /\ limiter.cls = Fixed
                => fixed_test(k)
                     = hit_admits(incr_doc(counters, k,
                                           now + timedelta(item.expiry),
                                           FALSE, now).count,
                                  item.amount)
           /\ (limiter.cls = Moving /\ limiter.caps = Caps)
                => moving_test(k)
                     = acquire_entry(windows, k, item.amount, item.expiry, now,
                                     now + timedelta(item.expiry)).ok

\* C14: while the backend is unreachable, check returns false without
\* raising, hit, test and get_window_stats raise the backend's error instead
\* of returning a result, and none of them changes a stored record; check
\* returns true when the backend is reachable.
C14_BackendFailure ==
    /\ [](/\ obs.op = "check" => (obs.err = "-" /\ obs.res = reachable)
          /\ (~reachable /\ obs.op \in {"hit", "test", "get_window_stats"})
               => (/\ obs.err # "-"
                   /\ limiter.caps = Caps => obs.err = BackendError))
    /\ [][(~reachable
            /\ obs'.op \in {"check", "hit", "test", "get_window_stats"})
           => (counters' = counters /\ windows' = windows)]_vars

C14_Witness ==
    \E k \in Keys :
        /\ ~reachable
        /\ limiter.cls = Moving /\ limiter.caps = Caps
        /\ obs.op = "hit" /\ obs.key = k /\ obs.err = BackendError
        /\ k \in DOMAIN windows
        /\ Len(windows[k].entries) < item.amount

\* C15: with hits applied in the order of their timestamps, a moving-window
\* hit at time now is admitted iff fewer than amount stored timestamps are
\* >= now - expiry; when admitted, the timestamp is recorded in front, the
\* in-window count grows by one and expireAt becomes now + expiry.
C15_MovingHitAdmission ==
    [][\A k \in Keys :
        (limiter.cls = Moving /\ obs'.op = "hit" /\ obs'.key = k
            /\ obs'.err = "-")
        => /\ obs'.res = (Cardinality(InWindow(k)) < item.amount)
           /\ obs'.res
                => /\ k \in DOMAIN windows'
                   /\ windows'[k].entries[1] = now
                   /\ windows'[k].expireAt = now + timedelta(item.expiry)
                   /\ Cardinality(InWindow(k)') = Cardinality(InWindow(k)) + 1]_vars

C15_Witness ==
    \E k \in Keys :
        /\ limiter.cls = Moving /\ obs.op = "hit" /\ obs.key = k
        /\ obs.err = "-" /\ ~obs.res /\ reachable
        /\ k \in DOMAIN windows
        /\ Len(windows[k].entries) = item.amount
        /\ windows[k].entries[item.amount] = now - timedelta(item.expiry)
        /\ windows[k].entries[1] > windows[k].entries[item.amount]

\* C16: a fixed-window hit on an unexpired counter record increments count
\* and leaves expireAt unchanged, admitted or rejected; until the record
\* expires, the reset reported by get_window_stats stays at the time of the
\* hit that created the record plus expiry (in whole seconds).
C16_RigidHitKeepsExpiry ==
    /\ [](\A k \in Keys :
            (limiter.cls = Fixed /\ hist[k].wend >= 0 /\ now <= hist[k].wend)
            => /\ k \in DOMAIN counters
               /\ counters[k].expireAt = hist[k].wend
               /\ fixed_get_window_stats(k)[1] = timegm(hist[k].wend))
    /\ [][\A k \in Keys :
            (limiter.cls = Fixed /\ obs'.op = "hit" /\ obs'.key = k
                /\ obs'.err = "-"
                /\ k \in DOMAIN counters /\ counters[k].expireAt >= now)
            => counters'[k] = [count |-> counters[k].count + 1,
                               expireAt |-> counters[k].expireAt]]_vars

C16_Witness ==
    \E k \in Keys :
        /\ limiter.cls = Fixed /\ obs.op = "hit" /\ obs.key = k
        /\ obs.err = "-" /\ ~obs.res
        /\ obs.gap > 0
        /\ hist[k].wend >= 0 /\ now <= hist[k].wend
        /\ now % TicksPerSec # 0
        /\ k \in DOMAIN counters
        /\ counters[k].count > item.amount
        /\ counters[k].expireAt < now + timedelta(item.expiry)

\* C17: a counter record that has expired but is still stored is treated as
\* absent: fixed-window hit, test and get_window_stats (remaining and reset)
\* give the results they give once the TTL index has removed the record.
C17_ExpiredRecordActsAsAbsent ==
    \A k \in Keys :
        (limiter.cls = Fixed /\ k \in DOMAIN counters
            /\ counters[k].expireAt < now)
        => LET evicted == Delete(counters, k)
               expiration == now + timedelta(item.expiry)
           IN  /\ incr_doc(counters, k, expiration, FALSE, now)
                    = incr_doc(evicted, k, expiration, FALSE, now)
               /\ (get_from(counters, k) < item.amount)
                    = (get_from(evicted, k) < item.amount)
               /\ Max(0, item.amount - get_from(counters, k))
                    = Max(0, item.amount - get_from(evicted, k))
               /\ get_expiry_from(counters, k) = get_expiry_from(evicted, k)

\* C18: the remaining value of get_window_stats lies in 0..amount for every
\* strategy, also when rejected fixed-window hits have pushed the stored
\* count past amount.
C18_RemainingInRange ==
    \A k \in Keys :
        /\ limiter.cls \in {Fixed, Elastic}
             => fixed_get_window_stats(k)[2] \in 0..item.amount
        /\ limiter.cls = Moving
             => moving_get_window_stats(k)[2] \in 0..item.amount
        /\ (obs.op = "get_window_stats" /\ obs.key = k /\ obs.err = "-")
             => obs.remaining \in 0..item.amount

C18_Witness ==
    \E k \in Keys :
        /\ limiter.cls = Fixed
        /\ obs.op = "get_window_stats" /\ obs.key = k /\ obs.err = "-"
        /\ k \in DOMAIN counters
        /\ counters[k].expireAt >= now
        /\ counters[k].count > item.amount + 1
        /\ obs.remaining = 0

\* C19: a window-entries record never holds more than amount timestamps;
\* when an admitted hit finds the record full, the entry dropped is the
\* oldest one stored and lies outside the trailing expiry window of that hit.
C19_WindowCapDropsOldest ==
    /\ [](\A k \in DOMAIN windows : Len(windows[k].entries) <= item.amount)
    /\ [][\A k \in Keys :
            (k \in DOMAIN windows /\ k \in DOMAIN windows'
                /\ admits'[k] # admits[k]
                /\ Len(windows[k].entries) = item.amount)
            => LET dropped == windows[k].entries[item.amount]
                   timestamp == windows'[k].entries[1]
               IN  /\ windows'[k].entries
                        = <<timestamp>>
                          \o SubSeq(windows[k].entries, 1, item.amount - 1)
                   /\ dropped = SetMin(Range(windows[k].entries))
                   /\ dropped < timestamp - timedelta(item.expiry)]_vars

\* C20: hit, test, get_window_stats and clear on one key leave the counter
\* record and the window-entries record of every other key unchanged, and
\* with them the stats (reset, remaining) of the other key.
C20_KeyIsolation ==
    [][\A k \in AllKeys :
        (obs'.op \in {"hit", "test", "get_window_stats", "clear"}
            /\ obs'.key = k)
        => \A j \in AllKeys \ {k} :
            /\ (j \in DOMAIN counters') = (j \in DOMAIN counters)
            /\ j \in DOMAIN counters => counters'[j] = counters[j]
            /\ (j \in DOMAIN windows') = (j \in DOMAIN windows)
            /\ j \in DOMAIN windows => windows'[j] = windows[j]
            /\ IF limiter.cls = Moving
               THEN moving_get_window_stats(j)' = moving_get_window_stats(j)
               ELSE fixed_get_window_stats(j)' = fixed_get_window_stats(j)]_vars

C20_Witness ==
    \E k \in AllKeys : \E j \in AllKeys \ {k} :
        /\ obs.op = "clear" /\ obs.key = k /\ obs.err = "-"
        /\ obs.count = 1
        /\ obs.full
        /\ \/ j \in DOMAIN counters /\ counters[j].expireAt >= now
           \/ j \in DOMAIN windows /\ windows[j].expireAt >= now

\* C21: the (reset, remaining) pair returned by the fixed-window
\* get_window_stats is the pair of one single state the counter record was
\* in during the call, whatever other callers and the TTL index do between
\* its two reads.
C21_StatsSnapshot ==
    reading.done => <<reading.reset, reading.remaining>> \in reading.snaps

\* C22: for every interleaving of concurrent hits on one key, a counter
\* record created or extended by incr has an expireAt later than the moment
\* the update is applied, and under elastic expiry the expireAt of an
\* unexpired record never moves backwards.
C22_ExpiryFromApplication ==
    [][\A k \in Keys :
        (k \in DOMAIN counters'
            /\ (k \notin DOMAIN counters \/ counters'[k] # counters[k]))
        => /\ (pipeline_expired(counters, k, now) \/ limiter.cls = Elastic)
                => counters'[k].expireAt > now
           /\ (limiter.cls = Elastic /\ ~pipeline_expired(counters, k, now))
                => counters'[k].expireAt >= counters[k].expireAt]_vars

\* C23: for every interleaving of concurrent moving-window hits on one key,
\* a hit is rejected only when amount stored timestamps are inside its
\* trailing expiry window (>= its timestamp - expiry).
C23_NoFalseRejection ==
    [][\A req \in BagToSet(inflight) :
        (limiter.cls = Moving
            /\ inflight' = inflight (-) SetToBag({req})
            /\ admits' = admits)
        => /\ req.key \in DOMAIN windows
           /\ Cardinality({i \in 1..Len(windows[req.key].entries) :
                    windows[req.key].entries[i]
                        >= req.timestamp - timedelta(item.expiry)})
                >= item.amount]_vars

====
